---- MODULE Spec2Model ----
(***************************************************************************)
(* The streaming decode-and-render pipeline of gh-copilot:                 *)
(*   stream.Parser.Process   (producer goroutine, internal/stream)         *)
(*   render.TerminalRenderer (consumer, internal/render)                   *)
(*   client.Ask              (wires both over an unbuffered channel)       *)
(*                                                                         *)
(* Text is a sequence of one-character strings, so that strings.Split,     *)
(* strings.TrimSpace, strings.HasPrefix and Go's byte offsets are computed *)
(* rather than assumed.  All modelled characters are ASCII: one character  *)
(* is one byte.                                                            *)
(***************************************************************************)
EXTENDS Integers, Sequences, FiniteSets

\* ------------------------------------------------------------------------
\* Characters
\* ------------------------------------------------------------------------
NL == "\n"
\* the backquote character (it cannot be written inside a TLA+ string)
BQ == "backquote"

\* unicode.IsSpace restricted to the modelled alphabet
IsSpace(c) == c \in {" ", "\n", "\t", "\r"}

\* ------------------------------------------------------------------------
\* package strings
\* ------------------------------------------------------------------------
HasPrefix(s, p) == Len(s) >= Len(p) /\ SubSeq(s, 1, Len(p)) = p

Contains(s, p) ==
    \E i \in 1..(Len(s) - Len(p) + 1) : SubSeq(s, i, i + Len(p) - 1) = p

TrimLeft(s) ==
    IF \A i \in 1..Len(s) : IsSpace(s[i]) THEN <<>>
    ELSE LET k == CHOOSE i \in 1..Len(s) :
                      ~IsSpace(s[i]) /\ \A j \in 1..(i - 1) : IsSpace(s[j])
         IN  SubSeq(s, k, Len(s))

TrimRight(s) ==
    IF \A i \in 1..Len(s) : IsSpace(s[i]) THEN <<>>
    ELSE LET k == CHOOSE i \in 1..Len(s) :
                      ~IsSpace(s[i]) /\ \A j \in (i + 1)..Len(s) : IsSpace(s[j])
         IN  SubSeq(s, 1, k)

TrimSpaceNone(s) == s

TrimSpace(s) == TrimRight(TrimLeft(s))

\* the one element of a singleton set; Only({ F(v) : v \in { e } }) evaluates
\* e once and F on its value
Only(S) == CHOOSE v \in S : TRUE

\* strings.Split(content, "\n"): always at least one element; line j lies
\* between the (j-1)-th and the j-th newline
Split(s) ==
    LET nls == { i \in 1..Len(s) : s[i] = NL }
        nth(k) == IF k = 0 THEN 0
                  ELSE IF k > Cardinality(nls) THEN Len(s) + 1
                  ELSE CHOOSE i \in nls : Cardinality({ m \in nls : m <= i }) = k
    IN  [ j \in 1..(Cardinality(nls) + 1) |->
            SubSeq(s, nth(j - 1) + 1, nth(j) - 1) ]

\* concatenation of a sequence of texts
RECURSIVE Concat(_)
Concat(ss) ==
    IF ss = <<>> THEN <<>>
    ELSE Only({ Head(v) \o Concat(Tail(v)) : v \in { ss } })

\* ------------------------------------------------------------------------
\* render.TerminalRenderer.findMarkdownBreakPoint
\* ------------------------------------------------------------------------
FenceOfFour == << BQ, BQ, BQ, BQ >>

Fence == << BQ, BQ, BQ >>
Digits == {"0", "1", "2", "3", "4", "5", "6", "7", "8", "9"}

\* the local variables of the scan before the first line
ScanInit ==
    [ inCodeBlock |-> FALSE, inList |-> FALSE, inTable |-> FALSE,
      inBlockquote |-> FALSE, lastBreakPosition |-> -1, position |-> 0 ]

listPrefixWithQuoteMarker(trimmed) ==
    \/ HasPrefix(trimmed, << "-", " " >>)
    \/ HasPrefix(trimmed, << "*", " " >>)
    \/ HasPrefix(trimmed, << "+", " " >>)
    \/ HasPrefix(trimmed, << ">" >>)
    \/ ( Len(trimmed) > 0 /\ trimmed[1] \in Digits
         /\ Contains(trimmed, << ".", " " >>) )

listPrefix(trimmed) ==
    \/ HasPrefix(trimmed, << "-", " " >>)
    \/ HasPrefix(trimmed, << "*", " " >>)
    \/ HasPrefix(trimmed, << "+", " " >>)
    \/ ( Len(trimmed) > 0 /\ trimmed[1] \in Digits
         /\ Contains(trimmed, << ".", " " >>) )

\* lineLength := len(line) + 1, the +1 for the newline
lineLengthOfNoNewline(line) == Len(line)

lineLengthOf(line) == Len(line) + 1

\* the offset the heading rule assigns: position - lineLength
HeadingBreakAfterLine(position, lineLength) == position + lineLength

HeadingBreak(position, lineLength) == position - lineLength

\* one iteration of the for loop; i is Go's index (0-based), lines[i + 1]
ScanLineTableEndsAtOtherLine(st, lines, i) ==
    LET line       == lines[i + 1]
        lineLength == lineLengthOf(line)
        trimmed    == TrimSpace(line)
        blank      == trimmed = <<>>
        code       == IF HasPrefix(trimmed, Fence)
                      THEN ~st.inCodeBlock ELSE st.inCodeBlock
        \* table rows
        isRow      == HasPrefix(trimmed, << "|" >>) /\ Contains(trimmed, << "|" >>)
        table      == isRow
        brk1       == IF ~isRow /\ st.inTable
                      THEN st.position ELSE st.lastBreakPosition
        \* blockquotes
        isQuote    == HasPrefix(trimmed, << ">" >>)
        quote      == IF isQuote THEN TRUE
                      ELSE IF st.inBlockquote /\ blank THEN FALSE
                      ELSE st.inBlockquote
        brk2       == IF ~isQuote /\ st.inBlockquote /\ blank
                      THEN st.position ELSE brk1
        \* list items
        isItem     == listPrefix(trimmed)
        list       == IF isItem THEN TRUE
                      ELSE IF st.inList /\ blank THEN FALSE ELSE st.inList
        brk3       == IF ~isItem /\ st.inList /\ blank
                      THEN st.position ELSE brk2
        currentInBlock == code \/ table \/ quote \/ list
        \* empty line followed by a non-empty line or the end of content
        brk4       == IF /\ ~currentInBlock /\ blank /\ i > 0
                         /\ \/ ( i + 1 < Len(lines)
                                 /\ TrimSpace(lines[i + 2]) # <<>> )
                            \/ i = Len(lines) - 1
                      THEN st.position ELSE brk3
        \* headers
        brk5       == IF /\ ~currentInBlock /\ HasPrefix(trimmed, << "#" >>)
                         /\ st.position > 0
                      THEN HeadingBreak(st.position, lineLength) ELSE brk4
    IN  IF code
        THEN [ st EXCEPT !.inCodeBlock = TRUE,
                         !.position = st.position + lineLength ]
        ELSE [ inCodeBlock |-> FALSE, inList |-> list, inTable |-> table,
               inBlockquote |-> quote, lastBreakPosition |-> brk5,
               position |-> st.position + lineLength ]

ScanLine(st, lines, i) ==
    LET line       == lines[i + 1]
        lineLength == lineLengthOf(line)
        trimmed    == TrimSpace(line)
        blank      == trimmed = <<>>
        code       == IF HasPrefix(trimmed, Fence)
                      THEN ~st.inCodeBlock ELSE st.inCodeBlock
        \* table rows
        isRow      == HasPrefix(trimmed, << "|" >>) /\ Contains(trimmed, << "|" >>)
        table      == IF isRow THEN TRUE
                      ELSE IF st.inTable /\ blank THEN FALSE ELSE st.inTable
        brk1       == IF ~isRow /\ st.inTable /\ blank
                      THEN st.position ELSE st.lastBreakPosition
        \* blockquotes
        isQuote    == HasPrefix(trimmed, << ">" >>)
        quote      == IF isQuote THEN TRUE
                      ELSE IF st.inBlockquote /\ blank THEN FALSE
                      ELSE st.inBlockquote
        brk2       == IF ~isQuote /\ st.inBlockquote /\ blank
                      THEN st.position ELSE brk1
        \* list items
        isItem     == listPrefix(trimmed)
        list       == IF isItem THEN TRUE
                      ELSE IF st.inList /\ blank THEN FALSE ELSE st.inList
        brk3       == IF ~isItem /\ st.inList /\ blank
                      THEN st.position ELSE brk2
        currentInBlock == code \/ table \/ quote \/ list
        \* empty line followed by a non-empty line or the end of content
        brk4       == IF /\ ~currentInBlock /\ blank /\ i > 0
                         /\ \/ ( i + 1 < Len(lines)
                                 /\ TrimSpace(lines[i + 2]) # <<>> )
                            \/ i = Len(lines) - 1
                      THEN st.position ELSE brk3
        \* headers
        brk5       == IF /\ ~currentInBlock /\ HasPrefix(trimmed, << "#" >>)
                         /\ st.position > 0
                      THEN HeadingBreak(st.position, lineLength) ELSE brk4
    IN  IF code
        THEN [ st EXCEPT !.inCodeBlock = TRUE,
                         !.position = st.position + lineLength ]
        ELSE [ inCodeBlock |-> FALSE, inList |-> list, inTable |-> table,
               inBlockquote |-> quote, lastBreakPosition |-> brk5,
               position |-> st.position + lineLength ]

\* the state of the scan after the lines with Go index < n
RECURSIVE ScanUpTo(_, _)
ScanUpTo(lines, n) ==
    IF n = 0 THEN ScanInit
    ELSE Only({ ScanLine(st, lines, n - 1) : st \in { ScanUpTo(lines, n - 1) } })

findMarkdownBreakPoint(content) ==
    Only({ ScanUpTo(lines, Len(lines)).lastBreakPosition :
             lines \in { Split(content) } })

\* ------------------------------------------------------------------------
\* Bounds of the model
\* ------------------------------------------------------------------------
\* content frames the response body delivers at most
MaxFrames == 3
\* frames without content (empty, [DONE], malformed, no choices) at most
MaxNoise == 1
\* lines of a text handed to the segmenter on its own at most
MaxLines == 4

\* ------------------------------------------------------------------------
\* The answers the server may stream.  An answer is a sequence of pieces;
\* one content frame carries one or more consecutive pieces, so a frame
\* boundary falls on a piece boundary.  Short answers are cut per character.
\* ------------------------------------------------------------------------
Each(s) == [ i \in 1..Len(s) |-> << s[i] >> ]

TitleFrame == << "#", " ", "T", "i", "t", "l", "e", NL, NL >>
BodyFrame  == << "B", "o", "d", "y", " ", "t", "e", "x", "t", ".", NL, NL >>
RowAB      == << "|", " ", "a", " ", "|", " ", "b", " ", "|", NL >>
RowSep     == << "|", " ", "-", " ", "|", " ", "-", " ", "|", NL >>
Row12      == << "|", " ", "1", " ", "|", " ", "2", " ", "|", NL >>
NextPara   == << "N", "e", "x", "t", " ", "p", "a", "r", "a", "g", "r", "a", "p", "h" >>

\* Scenario A: heading frame, body frame
DocScenarioA == << TitleFrame, BodyFrame >>
\* Scenario C: three table rows, a blank line, a paragraph
DocScenarioC == << RowAB, RowSep, Row12, << NL >>, NextPara >>
\* a short table followed by a blank line and a paragraph
DocTable  == Each(<< "|", NL, "|", NL, "|", NL, NL, "p" >>)
\* a closed code fence followed by a heading
DocFenceHeading == Each(Fence \o << NL, "c", NL >> \o Fence \o << NL, "#" >>)
\* Scenario D: a code fence that is never closed, with a blank line inside
DocOpenFence == Each(Fence \o << NL, "c", NL, NL, "d" >>)
\* a paragraph, a closed fence holding a blank line, a paragraph
DocFence  == << << "a", NL, NL >>, << BQ, BQ >>, << BQ, NL >>, << "c", NL >>,
               << NL >>, << BQ >>, << BQ, BQ, NL >>, << NL, "b" >> >>
\* a bullet list and a numbered item, then a paragraph
DocList   == << << "-", " ", "x", NL >>, << "1", ".", " ", "y" >>, << NL >>,
               << NL >>, << "p" >> >>
\* a blockquote of two lines, then a paragraph
DocQuote  == Each(<< ">", NL, ">", NL, NL, "p" >>)
\* two paragraphs and a heading
DocParas  == Each(<< "a", NL, NL, "b", NL, "#", "h", NL >>)
\* a table row directly followed by a list item, then a paragraph
DocMixed  == << << "|", NL >>, << "-", " ", "x", NL >>, << NL, "p" >> >>

Docs == { DocScenarioA, DocScenarioC, DocTable, DocFenceHeading, DocOpenFence,
          DocFence, DocList, DocQuote, DocParas, DocMixed }

\* The texts handed to the segmenter on its own: up to MaxLines lines, each
\* one of these kinds (blank, whitespace only, headings, table row, quote,
\* list item, code fence, paragraph text), joined by newlines.
LineKinds ==
    { <<>>, << " " >>, << "#" >>, << "#", " ", "h", "h" >>, << "|" >>,
      << ">" >>, << "-", " ", "x" >>, << BQ, BQ, BQ >>, << "a" >> }
\* strings.Join(lines, "\n")
Join(lines) ==
    Concat([ i \in 1..Len(lines) |->
               IF i = 1 THEN lines[i] ELSE << NL >> \o lines[i] ])
SegTexts ==
    { Join(ls) : ls \in UNION { [ 1..n -> LineKinds ] : n \in 1..MaxLines } }

\* ------------------------------------------------------------------------
\* package stream: Chunk, the lines of the response body, encoding/json
\* ------------------------------------------------------------------------
NoErr == "nil"
Chunk(content, err) == [ Content |-> content, Error |-> err ]
None == [ Content |-> <<>>, Error |-> "none" ]

\* context.Context.Err() once the context is done
CtxErrs == { "context canceled", "context deadline exceeded" }
\* scanner.Err(): an I/O error of the body, or bufio.ErrTooLong (line > 1 MB)
ReadErrs == { "io error", "token too long" }
JsonErr == "json error"

\* a line of the body: the empty line, or a payload with or without "data: "
EmptyLine == [ prefix |-> FALSE, payload |-> [ t |-> "empty" ] ]
DataLine(prefix, payload) == [ prefix |-> prefix, payload |-> payload ]
DonePayload == [ t |-> "[DONE]" ]
Garbage == [ t |-> "garbage" ]
Json(choices) == [ t |-> "json", choices |-> choices ]
Choice(delta, message) == [ delta |-> delta, message |-> message ]
Other == << "z" >>

\* strings.TrimPrefix(line, "data: ")
TrimPrefix(line) == line.payload

\* json.Unmarshal([]byte(data), &chunk) into a zero ChatResponse
Unmarshal(data) ==
    IF data.t = "json" THEN [ err |-> NoErr, Choices |-> data.choices ]
    ELSE [ err |-> JsonErr, Choices |-> <<>> ]

\* ------------------------------------------------------------------------
\* State
\* ------------------------------------------------------------------------
VARIABLES
    doc,         \* the answer the server streams (pieces)
    plainText,   \* TerminalRenderer.plainText
    pos,         \* pieces of doc already delivered by the body
    nFrames,     \* content frames read so far
    nNoise,      \* other frames read so far
    ctxErr,      \* ctx.Err(): NoErr until the context is cancelled
    pcD,         \* position of Parser.Process
    pending,     \* the Chunk a blocked send offers, or None
    chanBuf,     \* Chunks held by the channel p.chunks
    closed,      \* p.chunks is closed
    closeCount,  \* number of close(p.chunks) calls
    pcR,         \* position of TerminalRenderer.Render
    rResult,     \* the error Render returned
    buffer,      \* TerminalRenderer.buffer
    out,         \* what was written to standard output, in order
    segs,        \* the segments handed to renderContent, in order
    sentLog,     \* every Chunk the decoder handed to a send, in order
    recvLog,     \* every Chunk the renderer received, in order
    lastScan,    \* argument of the last findMarkdownBreakPoint call
    lastIdx,     \* its result
    observed,    \* a task has taken its <-done branch
    cancelMid,   \* the signal was raised before the decoder saw the stream end
    lateOut,     \* output was written after a task observed the signal
    scanned,     \* what scanner.Scan() returned in this iteration of Process
    hist         \* history of the run, kept only where hist.on

vars == << doc, plainText, pos, nFrames, nNoise, ctxErr, pcD, pending, chanBuf,
           closed, closeCount, pcR, rResult, buffer, out, segs, sentLog,
           recvLog, lastScan, lastIdx, observed, cancelMid, lateOut, scanned,
           hist >>

envVars == << doc, plainText >>
rVars   == << pcR, rResult, buffer, out, segs, recvLog, lastScan, lastIdx, lateOut >>

\* results of scanner.Scan(): false at the end of the body, false with
\* scanner.Err() set, or true with scanner.Text()
NotScanned == [ ok |-> FALSE, err |-> "not scanned", line |-> EmptyLine ]
ScanEnd == [ ok |-> FALSE, err |-> NoErr, line |-> EmptyLine ]
ScanFailed(e) == [ ok |-> FALSE, err |-> e, line |-> EmptyLine ]
ScanLineRead(line) == [ ok |-> TRUE, err |-> NoErr, line |-> line ]

\* History of a run: the number of content frames Process had read when it
\* first read a `data: [DONE]` line (-1 while it has read none), and the
\* content Chunks Process handed to a send and Render received after
\* ctx.Done() was closed.  NoHistory stays as it is in every step.
NoHistory == [ on |-> FALSE, doneAt |-> -1, lateSent |-> 0, lateRecv |-> 0 ]
NewHistory == [ on |-> TRUE, doneAt |-> -1, lateSent |-> 0, lateRecv |-> 0 ]

\* errors
Nil == [ kind |-> "nil", cause |-> NoErr ]
ErrNoCause(kind, cause) == [ kind |-> kind, cause |-> "unknown" ]

Err(kind, cause) == [ kind |-> kind, cause |-> cause ]

\* a channel with room for one Chunk, as make(chan Chunk, 1) would give
ChanCapBuffered == Len(<< "slot" >>)

\* make(chan Chunk): capacity of p.chunks

ChanCap == 0

\* the state after NewParser and NewTerminalRenderer, before any step
Start ==
    /\ plainText \in BOOLEAN
    /\ pos = 0 /\ nFrames = 0 /\ nNoise = 0
    /\ ctxErr = NoErr
    /\ pcD = "select" /\ pending = None /\ chanBuf = <<>>
    /\ closed = FALSE /\ closeCount = 0
    /\ pcR = "select" /\ rResult = Nil
    /\ buffer = <<>> /\ out = <<>> /\ segs = <<>>
    /\ sentLog = <<>> /\ recvLog = <<>>
    /\ lastScan = <<>> /\ lastIdx = -1
    /\ observed = FALSE /\ cancelMid = FALSE /\ lateOut = FALSE
    /\ scanned = NotScanned

Init == doc \in Docs /\ Start /\ hist = NoHistory

\* ------------------------------------------------------------------------
\* The channel p.chunks
\* ------------------------------------------------------------------------
\* where Process continues once the send at pc has completed
AfterSendReadErrContinues(pc) ==
    IF pc = "sendCancel" THEN "return" ELSE "select"

AfterSend(pc) ==
    IF pc \in { "sendCancel", "sendReadErr" } THEN "return" ELSE "select"

\* what a blocked sender still offers once a receive has taken a Chunk
AfterRecvPendingKept(pend) == pend

AfterRecvPending(pend) == None

\* p.chunks <- c issued at the send statement `at`: the Chunk enters the
\* channel when it has room, otherwise the sender blocks holding it
Send(c, at) ==
    /\ sentLog' = Append(sentLog, c)
    /\ IF Len(chanBuf) < ChanCap
       THEN /\ chanBuf' = Append(chanBuf, c)
            /\ pending' = pending
            /\ pcD' = AfterSend(at)
       ELSE /\ chanBuf' = chanBuf
            /\ pending' = c
            /\ pcD' = at

NoSend(next) ==
    /\ pcD' = next
    /\ UNCHANGED << sentLog, chanBuf, pending >>

\* ------------------------------------------------------------------------
\* stream.Parser.Process and Parser.processChunk
\* ------------------------------------------------------------------------
\* the content Parser.processChunk selects from a parsed frame
SelectContentMessageFirst(choices) ==
    IF Len(choices) > 0
    THEN IF choices[1].message = <<>> THEN choices[1].delta
         ELSE choices[1].message
    ELSE <<>>

SelectContent(choices) ==
    IF Len(choices) > 0
    THEN IF choices[1].delta = <<>> THEN choices[1].message
         ELSE choices[1].delta
    ELSE <<>>

\* for { select { case <-done: ...; default: ... } }
DSelectNoCheck ==
    /\ pcD = "select"
    /\ NoSend("scan")
    /\ observed' = observed
    /\ scanned' = NotScanned
    /\ UNCHANGED << envVars, hist, pos, nFrames, nNoise, ctxErr, closed, closeCount,
                    rVars, cancelMid >>

DSelect ==
    /\ pcD = "select"
    /\ IF ctxErr # NoErr
       THEN /\ Send(Chunk(<<>>, ctxErr), "sendCancel")
            /\ observed' = TRUE
            /\ scanned' = scanned
       ELSE /\ NoSend("scan")
            /\ observed' = observed
            /\ scanned' = NotScanned
    /\ UNCHANGED << envVars, hist, pos, nFrames, nNoise, ctxErr, closed, closeCount,
                    rVars, cancelMid >>

\* scanner.Scan() = false, scanner.Err() = nil: the body ended
DScanEOF ==
    /\ pcD = "scan"
    /\ NoSend("return")
    /\ scanned' = ScanEnd
    /\ UNCHANGED << envVars, hist, pos, nFrames, nNoise, ctxErr, closed, closeCount,
                    rVars, observed, cancelMid >>

\* scanner.Scan() = false, scanner.Err() # nil
DScanErr ==
    /\ pcD = "scan"
    /\ \E e \in ReadErrs :
         /\ Send(Chunk(<<>>, e), "sendReadErr")
         /\ scanned' = ScanFailed(e)
    /\ UNCHANGED << envVars, hist, pos, nFrames, nNoise, ctxErr, closed, closeCount,
                    rVars, observed, cancelMid >>

\* Parser.processChunk if the done marker ended the loop of Process
HandleLineDoneEnds(line) ==
    IF line = DataLine(TRUE, DonePayload) THEN NoSend("return")
    ELSE IF line = EmptyLine THEN NoSend("select")
    ELSE LET chunk == Unmarshal(TrimPrefix(line))
             content == SelectContent(chunk.Choices)
         IN  IF chunk.err # NoErr
             THEN Send(Chunk(<<>>, chunk.err), "sendParseErr")
             ELSE IF content # <<>>
                  THEN Send(Chunk(content, NoErr), "sendContent")
                  ELSE NoSend("select")

\* the rest of Parser.processChunk for the line scanner.Text() returned
HandleLine(line) ==
    IF line = EmptyLine \/ line = DataLine(TRUE, DonePayload)
    THEN NoSend("select")
    ELSE LET chunk == Unmarshal(TrimPrefix(line))
             content == SelectContent(chunk.Choices)
         IN  IF chunk.err # NoErr
             THEN Send(Chunk(<<>>, chunk.err), "sendParseErr")
             ELSE IF content # <<>>
                  THEN Send(Chunk(content, NoErr), "sendContent")
                  ELSE NoSend("select")

\* the frames that carry the content c
ContentLines(c) ==
    { DataLine(TRUE, Json(<< Choice(c, <<>>) >>)),
      DataLine(TRUE, Json(<< Choice(<<>>, c) >>)),
      DataLine(TRUE, Json(<< Choice(c, Other) >>)),
      DataLine(TRUE, Json(<< Choice(c, <<>>), Choice(Other, Other) >>)),
      DataLine(FALSE, Json(<< Choice(c, <<>>) >>)) }

\* the frames that carry no content
NoiseLines ==
    { EmptyLine,
      DataLine(TRUE, DonePayload),
      DataLine(FALSE, DonePayload),
      DataLine(TRUE, Garbage),
      DataLine(TRUE, Json(<<>>)),
      DataLine(TRUE, Json(<< Choice(<<>>, <<>>) >>)),
      DataLine(TRUE, Json(<< Choice(<<>>, <<>>), Choice(Other, Other) >>)) }

\* scanner.Scan() = true with a frame that carries the next k pieces
DScanContent ==
    /\ pcD = "scan"
    /\ nFrames < MaxFrames
    /\ \E k \in 1..(Len(doc) - pos) :
         /\ \E line \in ContentLines(Concat(SubSeq(doc, pos + 1, pos + k))) :
                HandleLine(line) /\ scanned' = ScanLineRead(line)
         /\ pos' = pos + k
    /\ nFrames' = nFrames + 1
    /\ hist' = IF hist.on /\ ctxErr # NoErr /\ Len(sentLog') > Len(sentLog)
                  /\ sentLog'[Len(sentLog')].Error = NoErr
               THEN [ hist EXCEPT !.lateSent = @ + 1 ] ELSE hist
    /\ UNCHANGED << envVars, nNoise, ctxErr, closed, closeCount, rVars,
                    observed, cancelMid >>

\* scanner.Scan() = true with a frame that carries no content
DScanNoise ==
    /\ pcD = "scan"
    /\ nNoise < MaxNoise
    /\ \E line \in NoiseLines :
         /\ HandleLine(line) /\ scanned' = ScanLineRead(line)
         /\ hist' = IF /\ hist.on /\ hist.doneAt = -1
                       /\ line = DataLine(TRUE, DonePayload)
                    THEN [ hist EXCEPT !.doneAt = nFrames ] ELSE hist
    /\ nNoise' = nNoise + 1
    /\ UNCHANGED << envVars, pos, nFrames, ctxErr, closed, closeCount, rVars,
                    observed, cancelMid >>

\* Process returns: defer close(p.chunks)
DReturn ==
    /\ pcD = "return"
    /\ pcD' = "done"
    /\ closed' = TRUE
    /\ closeCount' = closeCount + 1
    /\ UNCHANGED << envVars, hist, scanned, pos, nFrames, nNoise, ctxErr, pending, chanBuf,
                    sentLog, rVars, observed, cancelMid >>

\* ------------------------------------------------------------------------
\* render.TerminalRenderer
\* ------------------------------------------------------------------------
Emit(text, by)   == [ op |-> "Print", text |-> text, by |-> by ]
EmitLine(by)       == [ op |-> "Println", text |-> <<>>, by |-> by ]
\* fmt.EmitLine(strings.TrimSpace(mdContent)) for mdContent = Render(text)
EmitMd(text, by) == [ op |-> "PrintlnMd", text |-> text, by |-> by ]

\* renderContent: the output it writes and the error it returns;
\* mdOk tells whether t.markdown.Render succeeds
renderContentNoSpacing(content, by, mdOk) ==
    IF plainText
    THEN [ outs |-> << Emit(content, by) >>, err |-> NoErr ]
    ELSE LET trimmed == TrimSpace(content)
         IN  IF mdOk
             THEN [ outs |-> << EmitMd(trimmed, by) >>, err |-> NoErr ]
             ELSE [ outs |-> <<>>, err |-> "render error" ]

renderContent(content, by, mdOk) ==
    IF plainText
    THEN [ outs |-> << Emit(content, by) >>, err |-> NoErr ]
    ELSE LET trimmed == TrimSpace(content)
             spacing == IF HasPrefix(trimmed, << "#" >>)
                        THEN << EmitLine(by) >> ELSE <<>>
         IN  IF mdOk
             THEN [ outs |-> spacing \o << EmitMd(trimmed, by) >>,
                    err |-> NoErr ]
             ELSE [ outs |-> spacing, err |-> "render error" ]

\* bufContent[idx:]
RemainingSkipOne(bufContent, idx) == SubSeq(bufContent, idx + 2, Len(bufContent))

Remaining(bufContent, idx) == SubSeq(bufContent, idx + 1, Len(bufContent))

\* processChunk once the break point idx of the buffer is known: new buffer,
\* output, segment, error and the scan it made
processChunkAtTrimsOnError(bufContent, idx, mdOk) ==
    LET seg == SubSeq(bufContent, 1, idx)
        r   == renderContent(seg, "processChunk", mdOk)
    IN  IF idx > -1
        THEN [ buffer |-> Remaining(bufContent, idx),
               outs |-> r.outs, segs |-> << [ seg |-> seg, final |-> FALSE ] >>,
               err |-> r.err, scan |-> bufContent, idx |-> idx ]
        ELSE [ buffer |-> bufContent, outs |-> <<>>, segs |-> <<>>,
               err |-> NoErr, scan |-> bufContent, idx |-> idx ]

processChunkAt(bufContent, idx, mdOk) ==
    LET seg == SubSeq(bufContent, 1, idx)
        r   == renderContent(seg, "processChunk", mdOk)
    IN  IF idx > Len(bufContent)
        THEN \* bufContent[:idx] panics: slice bounds out of range
             [ buffer |-> bufContent, outs |-> <<>>, segs |-> <<>>,
               err |-> "slice bounds out of range", scan |-> bufContent,
               idx |-> idx ]
        ELSE IF idx > -1
        THEN [ buffer |-> IF r.err = NoErr THEN Remaining(bufContent, idx)
                          ELSE bufContent,
               outs |-> r.outs, segs |-> << [ seg |-> seg, final |-> FALSE ] >>,
               err |-> r.err, scan |-> bufContent, idx |-> idx ]
        ELSE [ buffer |-> bufContent, outs |-> <<>>, segs |-> <<>>,
               err |-> NoErr, scan |-> bufContent, idx |-> idx ]

processChunk(content, mdOk) ==
    Only({ processChunkAt(buffer \o content, idx, mdOk) :
             idx \in { findMarkdownBreakPoint(buffer \o content) } })

\* renderRemaining
renderRemainingNoBlankLine(mdOk) ==
    LET r == renderContent(buffer, "finalFlush", mdOk)
    IN  IF buffer # <<>>
        THEN [ outs |-> r.outs, err |-> r.err,
               segs |-> << [ seg |-> buffer, final |-> TRUE ] >> ]
        ELSE [ outs |-> <<>>, err |-> NoErr, segs |-> <<>> ]

renderRemaining(mdOk) ==
    LET r == renderContent(buffer, "finalFlush", mdOk)
    IN  IF buffer # <<>>
        THEN IF r.err # NoErr
             THEN [ outs |-> r.outs, err |-> r.err,
                    segs |-> << [ seg |-> buffer, final |-> TRUE ] >> ]
             ELSE [ outs |-> r.outs \o << EmitLine("renderRemaining") >>,
                    err |-> NoErr,
                    segs |-> << [ seg |-> buffer, final |-> TRUE ] >> ]
        ELSE [ outs |-> << EmitLine("renderRemaining") >>, err |-> NoErr,
               segs |-> <<>> ]

\* Render, case <-done: return t.ctx.Err()
RDoneReturnsNil ==
    /\ pcR = "select"
    /\ ctxErr # NoErr
    /\ pcR' = "done"
    /\ rResult' = Nil
    /\ observed' = TRUE
    /\ UNCHANGED << envVars, hist, scanned, pos, nFrames, nNoise, ctxErr, pcD, pending,
                    chanBuf, closed, closeCount, buffer, out, segs, sentLog,
                    recvLog, lastScan, lastIdx, cancelMid, lateOut >>

RDone ==
    /\ pcR = "select"
    /\ ctxErr # NoErr
    /\ pcR' = "done"
    /\ rResult' = Err("ctx", ctxErr)
    /\ observed' = TRUE
    /\ UNCHANGED << envVars, hist, scanned, pos, nFrames, nNoise, ctxErr, pcD, pending,
                    chanBuf, closed, closeCount, buffer, out, segs, sentLog,
                    recvLog, lastScan, lastIdx, cancelMid, lateOut >>

\* Render, case chunk, ok := <-chunks with ok = true
RRecv ==
    /\ pcR = "select"
    /\ chanBuf # <<>> \/ pending # None
    /\ LET chunk == IF chanBuf # <<>> THEN Head(chanBuf) ELSE pending
       IN  /\ recvLog' = Append(recvLog, chunk)
           /\ hist' = IF hist.on /\ ctxErr # NoErr /\ chunk.Error = NoErr
                      THEN [ hist EXCEPT !.lateRecv = @ + 1 ] ELSE hist
           /\ chanBuf' = IF chanBuf # <<>>
                         THEN Tail(chanBuf) \o
                              (IF pending # None THEN << pending >> ELSE <<>>)
                         ELSE chanBuf
           /\ pending' = AfterRecvPending(pending)
           /\ pcD' = IF pending # None THEN AfterSend(pcD) ELSE pcD
           /\ IF chunk.Error # NoErr
              THEN /\ pcR' = "done"
                   /\ rResult' = Err("stream", chunk.Error)
                   /\ UNCHANGED << buffer, out, segs, lastScan, lastIdx, lateOut >>
              ELSE \E mdOk \in BOOLEAN :
                     LET p == processChunk(chunk.Content, mdOk)
                     IN  /\ mdOk \/ (~plainText /\ p.idx > -1)
                         /\ buffer' = p.buffer
                         /\ out' = out \o p.outs
                         /\ segs' = segs \o p.segs
                         /\ lastScan' = p.scan
                         /\ lastIdx' = p.idx
                         /\ lateOut' = (lateOut \/ (observed /\ p.outs # <<>>))
                         /\ IF p.err # NoErr
                            THEN /\ pcR' = "done"
                                 /\ rResult' = Err("process", p.err)
                            ELSE UNCHANGED << pcR, rResult >>
    /\ UNCHANGED << envVars, scanned, pos, nFrames, nNoise, ctxErr, closed, closeCount,
                    sentLog, observed, cancelMid >>

\* Render, case chunk, ok := <-chunks with ok = false: renderRemaining
RClosed ==
    /\ pcR = "select"
    /\ closed /\ chanBuf = <<>>
    /\ \E mdOk \in BOOLEAN :
         LET r == renderRemaining(mdOk)
         IN  /\ mdOk \/ (~plainText /\ buffer # <<>>)
             /\ out' = out \o r.outs
             /\ segs' = segs \o r.segs
             /\ lateOut' = (lateOut \/ (observed /\ r.outs # <<>>))
             /\ rResult' = IF r.err # NoErr THEN Err("remaining", r.err) ELSE Nil
    /\ pcR' = "done"
    /\ UNCHANGED << envVars, hist, scanned, pos, nFrames, nNoise, ctxErr, pcD, pending,
                    chanBuf, closed, closeCount, buffer, sentLog, recvLog,
                    lastScan, lastIdx, observed, cancelMid >>

\* ------------------------------------------------------------------------
\* The caller's context: interrupt or the deadline of main
\* ------------------------------------------------------------------------
Cancel ==
    /\ ctxErr = NoErr
    /\ pcR # "done"
    /\ \E e \in CtxErrs : ctxErr' = e
    /\ cancelMid' = (pcD \in { "select", "scan", "sendContent" })
    /\ UNCHANGED << envVars, hist, scanned, pos, nFrames, nNoise, pcD, pending, chanBuf,
                    closed, closeCount, sentLog, rVars, observed >>

\* ------------------------------------------------------------------------
\* client.Ask: go parser.Process(resp.Body); return renderer.Render(...)
\* ------------------------------------------------------------------------
\* Process as a loop that never looks at ctx.Done()
DecoderNoCancelCheck ==
    DSelectNoCheck \/ DScanEOF \/ DScanErr \/ DScanContent \/ DScanNoise \/ DReturn

Decoder  == DSelect \/ DScanEOF \/ DScanErr \/ DScanContent \/ DScanNoise \/ DReturn
\* Render as a plain receive loop, without the <-done case
RendererNoDoneCase == RRecv \/ RClosed

Renderer == RDone \/ RRecv \/ RClosed

Next == Decoder \/ Renderer \/ Cancel

Spec == Init /\ [][Next]_vars

\* the runs of one short answer, in either mode
InitShort == Init /\ doc = DocQuote

\* both goroutines are scheduled, and the body answers every read
FairSpec ==
    InitShort /\ [][Next]_vars /\ WF_vars(Decoder) /\ WF_vars(Renderer)

\* only the goroutine of Ask (Render) is scheduled for sure; the decoder may
\* stall anywhere, for instance in a read the body never answers
RenderFairSpec ==
    InitShort /\ [][Next]_vars /\ WF_vars(Renderer)

\* the runs of two short answers with their history kept
HistDocs == { DocScenarioA, DocQuote }

HistInit == doc \in HistDocs /\ Start /\ hist = NewHistory

HistSpec == HistInit /\ [][Next]_vars

\* ------------------------------------------------------------------------
\* TerminalRenderer.processChunk on its own: a fresh renderer is handed one
\* text of SegTexts as the content of its first Chunk
\* ------------------------------------------------------------------------
SegInit == doc \in { << t >> : t \in SegTexts } /\ Start /\ hist = NoHistory

\* Render's handling of one content Chunk holding the whole text
SegProcess ==
    /\ pcR = "select"
    /\ recvLog = <<>>
    /\ LET chunk == Chunk(doc[1], NoErr)
       IN  /\ recvLog' = << chunk >>
           /\ \E mdOk \in BOOLEAN :
                LET p == processChunk(chunk.Content, mdOk)
                IN  /\ mdOk \/ (~plainText /\ p.idx > -1)
                    /\ buffer' = p.buffer
                    /\ out' = out \o p.outs
                    /\ segs' = segs \o p.segs
                    /\ lastScan' = p.scan
                    /\ lastIdx' = p.idx
                    /\ lateOut' = lateOut
                    /\ IF p.err # NoErr
                       THEN /\ pcR' = "done"
                            /\ rResult' = Err("process", p.err)
                       ELSE UNCHANGED << pcR, rResult >>
    /\ UNCHANGED << envVars, hist, scanned, pos, nFrames, nNoise, ctxErr, pcD, pending,
                    chanBuf, closed, closeCount, sentLog, observed, cancelMid >>

SegSpec == SegInit /\ [][SegProcess]_vars

\* ------------------------------------------------------------------------
\* Vocabulary of the properties
\* ------------------------------------------------------------------------
Contents(log) == Concat([ i \in 1..Len(log) |-> log[i].Content ])
\* all content the decoder produced, and all content the renderer received
DecodedText == Contents(sentLog)
RecvText    == Contents(recvLog)
\* the text written by fmt.Print, in order
PrintedText ==
    Concat([ i \in 1..Len(out) |->
                IF out[i].op = "Print" THEN out[i].text ELSE <<>> ])
\* offset, in the received text, at which the i-th segment ends
CutAt(i) == Len(Concat([ j \in 1..i |-> segs[j].seg ]))
\* segments flushed by processChunk (not by the final flush), render succeeded
Flushed ==
    { i \in 1..Len(segs) :
        ~segs[i].final /\ ~(i = Len(segs) /\ rResult.kind = "process") }

RECURSIVE LineStart(_, _)
\* byte offset at which line j (1-based) of lines starts
LineStart(lines, j) ==
    IF j = 1 THEN 0
    ELSE Only({ p + Len(lines[j - 1]) + 1 : p \in { LineStart(lines, j - 1) } })

IsFenceLine(line) == HasPrefix(TrimSpace(line), Fence)
IsRowLine(line)   == HasPrefix(TrimSpace(line), << "|" >>)
IsQuoteLine(line) == HasPrefix(TrimSpace(line), << ">" >>)
IsItemLine(line)  == listPrefix(TrimSpace(line))
IsHeadingLine(line) == HasPrefix(TrimSpace(line), << "#" >>)
IsBlankLine(line) == TrimSpace(line) = <<>>

\* offset p of text lies after the start of an opening fence line and before
\* the end of its closing fence line (or the fence is not closed)
InsideFence(text, p) ==
    LET lines  == Split(text)
        fences == { j \in 1..Len(lines) : IsFenceLine(lines[j]) }
        rank(j) == Cardinality({ i \in fences : i <= j })
    IN  \E o \in fences :
          /\ rank(o) % 2 = 1
          /\ LineStart(lines, o) < p
          /\ \A c \in fences :
               rank(c) = rank(o) + 1 => p < LineStart(lines, c) + Len(lines[c])

\* offset p of text is the start of a line that continues the table, list or
\* blockquote of the line before it
SplitsBlock(text, p) ==
    LET lines == Split(text)
    IN  \E j \in 2..Len(lines) :
          /\ LineStart(lines, j) = p
          /\ \/ IsRowLine(lines[j - 1]) /\ IsRowLine(lines[j])
             \/ IsQuoteLine(lines[j - 1]) /\ IsQuoteLine(lines[j])
             \/ IsItemLine(lines[j - 1]) /\ IsItemLine(lines[j])

\* ------------------------------------------------------------------------
\* Properties
\* ------------------------------------------------------------------------

\* C1: in plain mode nothing is lost, duplicated or reordered: while Render
\* runs, the printed text followed by the buffer is the received content, and
\* when Render has returned success the printed text is exactly the content
\* of all Chunks the decoder produced.
C1_NoLossPlain ==
    plainText =>
      /\ pcR = "select" => PrintedText \o buffer = RecvText
      /\ (pcR = "done" /\ rResult = Nil) => PrintedText = DecodedText

\* a successful plain run with at least two frames, a segment flushed by
\* processChunk and a non-empty final flush
C1_Witness ==
    /\ plainText /\ pcR = "done" /\ rResult = Nil
    /\ Len(sentLog) >= 2
    /\ \E i \in Flushed : segs[i].seg # <<>>
    /\ \E i \in 1..Len(segs) : segs[i].final /\ segs[i].seg # <<>>
    /\ PrintedText = DecodedText

\* C2: no segment flushed by processChunk ends between an opening fence line
\* and its closing fence line, or inside a fence line.
C2_FenceNeverSplit ==
    \A i \in Flushed : ~InsideFence(RecvText, CutAt(i))

\* C3: no segment flushed by processChunk ends between two consecutive lines
\* of the same table, list or blockquote.
C3_BlockNeverSplit ==
    \A i \in Flushed : ~SplitsBlock(RecvText, CutAt(i))

\* a buffer of three table rows, one blank line and one paragraph line
IsTableBlankPara(text) ==
    LET lines == Split(text)
    IN  /\ Len(lines) = 5
        /\ \A j \in 1..3 : IsRowLine(lines[j])
        /\ lines[4] = <<>>
        /\ ~IsBlankLine(lines[5]) /\ ~IsRowLine(lines[5])
        /\ ~IsQuoteLine(lines[5]) /\ ~IsItemLine(lines[5])
        /\ ~IsHeadingLine(lines[5]) /\ ~IsFenceLine(lines[5])

\* C4: for three table rows, a blank line and a paragraph line the segmenter
\* returns the offset of the blank line that follows the table.
C4_ScenarioC ==
    IsTableBlankPara(lastScan) => lastIdx = LineStart(Split(lastScan), 4)

\* the segmenter has scanned the whole text of Scenario C
C4_Witness ==
    /\ lastScan = RowAB \o RowSep \o Row12 \o << NL >> \o NextPara
    /\ lastIdx = 30

\* C5: a frame that does not parse as JSON produces no Chunk and does not
\* change the result of Render.
C5_MalformedSkipped ==
    /\ \A i \in 1..Len(sentLog) : sentLog[i].Error # JsonErr
    /\ rResult.cause # JsonErr

\* C6: the channel is closed at most once, and in every execution it is
\* eventually closed.
C6_ClosedExactlyOnce ==
    [](closeCount <= 1) /\ <>(closeCount = 1)

\* C7: when the signal was raised mid-stream Render returns a cancellation
\* error, and nothing is written after a task has observed the signal.
C7_CancelStops ==
    /\ (cancelMid /\ pcR = "done") => rResult.cause \in CtxErrs
    /\ ~lateOut

\* C8: with the signal raised and a content Chunk offered, the renderer does
\* not receive the Chunk.
C8_CancelPriority ==
    [][ ( /\ pcR = "select" /\ ctxErr # NoErr
          /\ pending # None /\ pending.Error = NoErr )
        => recvLog' = recvLog ]_vars

\* C9: the Chunks received are a prefix of the Chunks sent.
C9_Order ==
    /\ Len(recvLog) <= Len(sentLog)
    /\ recvLog = SubSeq(sentLog, 1, Len(recvLog))

\* three different Chunks were received in the order they were sent
C9_Witness ==
    /\ Len(recvLog) = 3
    /\ recvLog = sentLog
    /\ recvLog[1] # recvLog[2] /\ recvLog[2] # recvLog[3]

\* C10: the decoder is never more than one Chunk ahead of the renderer and
\* does not read a frame while a Chunk waits to be handed over.
C10_Backpressure ==
    /\ Len(sentLog) - Len(recvLog) <= 1
    /\ pcD = "scan" => Len(sentLog) = Len(recvLog)

\* the decoder is blocked in a send, one Chunk ahead, after an earlier handoff
C10_Witness ==
    /\ pcD = "sendContent" /\ pending # None
    /\ Len(recvLog) >= 1
    /\ Len(sentLog) = Len(recvLog) + 1

Last(q) == q[Len(q)]
\* indices of the Chunks of log that carry one of the errors es
ErrorsIn(log, es) == { i \in 1..Len(log) : log[i].Error \in es }
\* the blank line renderRemaining prints after the final flush
TrailingLine == EmitLine("renderRemaining")
TrailingLines == { i \in 1..Len(out) : out[i] = TrailingLine }
\* the segments handed to renderContent by renderRemaining
FinalSegs == { i \in 1..Len(segs) : segs[i].final }

C12_ErrorChunkStops ==
    \A i \in 1..Len(recvLog) :
       recvLog[i].Error # NoErr =>
         /\ i = Len(recvLog)
         /\ pcR = "done"
         /\ rResult = [ kind |-> "stream", cause |-> recvLog[i].Error ]
         /\ FinalSegs = {} /\ TrailingLines = {}
         /\ plainText => PrintedText \o buffer = RecvText

\* a read error received while the buffer still holds content
C12_Witness ==
    /\ recvLog # <<>> /\ Last(recvLog).Error \in ReadErrs
    /\ buffer # <<>> /\ pcR = "done"
    /\ Len(recvLog) >= 2

\* C13: when Render has returned success the channel was closed, the buffer
\* (if not empty) was handed whole to renderContent exactly once by the final
\* flush, whatever block is open in it, and the output ends with exactly one
\* trailing blank line; no trailing blank line exists in any other case.
C13_FinalFlush ==
    /\ Cardinality(FinalSegs) <= 1
    /\ (pcR = "done" /\ rResult = Nil) =>
         /\ closed /\ chanBuf = <<>>
         /\ ErrorsIn(recvLog, { e \in STRING : e # NoErr }) = {}
         /\ IF buffer = <<>> THEN FinalSegs = {}
            ELSE /\ FinalSegs = { Len(segs) }
                 /\ Last(segs).seg = buffer
         /\ TrailingLines = { Len(out) }
    /\ ~(pcR = "done" /\ rResult = Nil) => TrailingLines = {}

\* success with an unterminated code fence flushed by the final flush
C13_Witness ==
    /\ pcR = "done" /\ rResult = Nil
    /\ FinalSegs # {}
    /\ HasPrefix(Last(segs).seg, Fence)
    /\ findMarkdownBreakPoint(Last(segs).seg) = -1
    /\ Last(out) = TrailingLine

\* the terminal outcomes of Render: Drained, Cancelled, Failed
Drained ==
    /\ rResult = Nil /\ closed /\ chanBuf = <<>>
    /\ \A i \in 1..Len(recvLog) : recvLog[i].Error = NoErr
Cancelled ==
    /\ rResult.kind = "ctx" /\ ctxErr # NoErr /\ rResult.cause = ctxErr
Failed ==
    \/ /\ rResult.kind = "stream" /\ recvLog # <<>>
       /\ Last(recvLog).Error # NoErr /\ rResult.cause = Last(recvLog).Error
    \/ /\ rResult.kind \in { "process", "remaining" }
       /\ ~plainText /\ rResult.cause = "render error"
\* Render is in its loop with nothing returned, or has returned one outcome
RenderOutcome ==
    /\ pcR \in { "select", "done" }
    /\ pcR = "select" => rResult = Nil
    /\ pcR = "done" => (Drained \/ Cancelled \/ Failed)

\* C14: Render waits in its loop until it returns one of Drained, Cancelled
\* or Failed; it returns nil only when the channel was closed and drained;
\* and once it has returned, no step receives a Chunk, renders or changes
\* the result.
C14_OneOutcome ==
    [][ (pcR = "done" => UNCHANGED rVars) /\ RenderOutcome' ]_vars

\* Render returned on cancellation while Chunks were still on offer
C14_Witness ==
    /\ pcR = "done" /\ Cancelled
    /\ pending # None /\ recvLog # <<>>

\* the text of the segments rendered before the last renderContent call
RenderedBefore == Concat([ j \in 1..(Len(segs) - 1) |-> segs[j].seg ])
MdLines == { i \in 1..Len(out) : out[i].op = "PrintlnMd" }

\* C16: when Render has returned a render failure, the failing renderContent
\* call is the last one made and made once (every earlier call wrote its one
\* markdown block, the failing one none), the buffer still holds the failing
\* segment and all text after it, the Chunks received are exactly the text
\* rendered before plus the buffer, and no trailing blank line was printed;
\* for a failure in processChunk and in the final flush alike.
C16_RenderFailureFatal ==
    rResult.kind \in { "process", "remaining" } =>
      /\ pcR = "done" /\ ~plainText
      /\ rResult.cause = "render error"
      /\ segs # <<>>
      /\ Cardinality(MdLines) = Len(segs) - 1
      /\ RenderedBefore \o buffer = RecvText
      /\ HasPrefix(buffer, Last(segs).seg)
      /\ TrailingLines = {}
      /\ rResult.kind = "process" =>
           /\ ~Last(segs).final /\ FinalSegs = {}
           /\ buffer = lastScan /\ lastIdx > -1
           /\ Last(segs).seg = SubSeq(buffer, 1, lastIdx)
      /\ rResult.kind = "remaining" =>
           /\ Last(segs).final /\ closed
           /\ Last(segs).seg = buffer /\ buffer # <<>>

\* a render failure in processChunk after an earlier segment was rendered,
\* with text behind the failing segment still in the buffer
C16_Witness ==
    /\ rResult.kind = "process"
    /\ Len(segs) >= 2
    /\ Len(buffer) > Len(Last(segs).seg)
    /\ pending # None

ScenarioASegs ==
    << [ seg |-> TitleFrame, final |-> FALSE ],
       [ seg |-> BodyFrame, final |-> FALSE ] >>
ScenarioAOut ==
    IF plainText
    THEN << Emit(TitleFrame, "processChunk"), Emit(BodyFrame, "processChunk"),
            TrailingLine >>
    ELSE << EmitLine("processChunk"),
            EmitMd(<< "#", " ", "T", "i", "t", "l", "e" >>, "processChunk"),
            EmitMd(<< "B", "o", "d", "y", " ", "t", "e", "x", "t", "." >>,
                   "processChunk"),
            TrailingLine >>

\* C17: Scenario A.  When the heading frame and the body frame have been
\* received, exactly two segments were flushed, the heading frame then the
\* body frame, and the buffer is empty; when Render then returns success the
\* final flush rendered nothing and the output is the heading (in styled mode
\* preceded by one blank line), the body (not preceded by one) and one
\* trailing blank line.
C17_ScenarioA ==
    recvLog = << Chunk(TitleFrame, NoErr), Chunk(BodyFrame, NoErr) >> =>
      /\ pcR = "select" => (segs = ScenarioASegs /\ buffer = <<>>)
      /\ (pcR = "done" /\ rResult = Nil) =>
           (segs = ScenarioASegs /\ buffer = <<>> /\ out = ScenarioAOut)

\* Scenario A ran to success in styled mode with a frame without content
\* ([DONE]) read before the end of the body
C17_Witness ==
    /\ recvLog = << Chunk(TitleFrame, NoErr), Chunk(BodyFrame, NoErr) >>
    /\ ~plainText /\ nNoise = 1
    /\ pcR = "done" /\ rResult = Nil /\ pcD = "done"

\* the line is one of the frames that need no parsing or that parse
Parses(line) ==
    \/ line = EmptyLine
    \/ line = DataLine(TRUE, DonePayload)
    \/ line.payload.t = "json"
\* the Chunks a frame is to produce: none for the empty line and the done
\* marker, else the first choice's delta, else its message, else none
FrameChunks(line) ==
    IF line = EmptyLine \/ line = DataLine(TRUE, DonePayload) THEN <<>>
    ELSE LET cs == line.payload.choices
         IN  IF cs = <<>> THEN <<>>
             ELSE IF cs[1].delta # <<>> THEN << Chunk(cs[1].delta, NoErr) >>
             ELSE IF cs[1].message # <<>> THEN << Chunk(cs[1].message, NoErr) >>
             ELSE <<>>

\* C18: the step that reads a line which is empty, is the done marker, or
\* parses hands to the channel exactly the Chunks of FrameChunks: none, or
\* one content Chunk with the first choice's delta if it is not empty, else
\* its message if that is not empty; never more than one.
C18_ContentSelection ==
    [][ (pcD = "scan" /\ pcD' # "scan" /\ scanned'.ok /\ Parses(scanned'.line))
          => /\ sentLog' = sentLog \o FrameChunks(scanned'.line)
             /\ Len(sentLog') <= Len(sentLog) + 1
             /\ pcD' = IF FrameChunks(scanned'.line) = <<>> THEN "select"
                       ELSE "sendContent" ]_vars

\* a frame whose first choice has an empty delta and a message: the message
\* is on offer
C18_Witness ==
    /\ scanned.ok /\ scanned.line.payload.t = "json"
    /\ scanned.line.payload.choices # <<>>
    /\ scanned.line.payload.choices[1].delta = <<>>
    /\ scanned.line.payload.choices[1].message # <<>>
    /\ pcD = "sendContent"
    /\ pending = Chunk(scanned.line.payload.choices[1].message, NoErr)

\* a cancellation Chunk is the last Chunk sent, carries ctx.Err(), and the
\* decoder is sending it, returning, or done
CancelChunkLast ==
    /\ ErrorsIn(sentLog, CtxErrs) \subseteq { Len(sentLog) }
    /\ ErrorsIn(sentLog, CtxErrs) # {} =>
         /\ Last(sentLog) = Chunk(<<>>, ctxErr)
         /\ pcD \in { "sendCancel", "return", "done" }

\* C19: when the decoder starts an iteration with the context done, its step
\* reads nothing and hands over one error Chunk carrying ctx.Err(); that
\* Chunk stays the last one sent and the decoder only returns after it.
C19_CancelBeforeRead ==
    [][ /\ (pcD = "select" /\ ctxErr # NoErr /\ pcD' # "select") =>
              /\ pcD' = "sendCancel"
              /\ sentLog' = Append(sentLog, Chunk(<<>>, ctxErr))
              /\ pending' = Chunk(<<>>, ctxErr)
              /\ UNCHANGED << scanned, pos, nFrames, nNoise >>
        /\ CancelChunkLast' ]_vars

\* cancelled after content was sent: the cancellation Chunk was handed over
\* and the decoder returned
C19_Witness ==
    /\ pcD = "done" /\ closed
    /\ Len(sentLog) >= 2
    /\ Last(sentLog).Error \in CtxErrs
    /\ sentLog[1].Error = NoErr

\* the blocks open in a scan state
OpenBlocks(st) ==
    { b \in { "CodeBlock", "Table", "List", "Blockquote" } :
        \/ b = "CodeBlock" /\ st.inCodeBlock
        \/ b = "Table" /\ st.inTable
        \/ b = "List" /\ st.inList
        \/ b = "Blockquote" /\ st.inBlockquote }
RECURSIVE ScanTrace(_, _)
\* the scan states before the first line and after each of the first n lines
ScanTrace(lines, n) ==
    IF n = 0 THEN << ScanInit >>
    ELSE Only({ Append(t, ScanLine(t[n], lines, n - 1)) :
                  t \in { ScanTrace(lines, n - 1) } })
\* the scan states of the last scan
LastScanTrace ==
    Only({ ScanTrace(lines, Len(lines)) : lines \in { Split(lastScan) } })

StreamEnded ==
    \/ closed /\ chanBuf = <<>>
    \/ pending # None /\ pending.Error # NoErr
    \/ chanBuf # <<>> /\ Head(chanBuf).Error # NoErr

\* C15: Ask's result is the result of Render.  Whenever the stream has ended
\* or failed, or the context is done, Render returns, with no assumption on
\* what the decoder does or whether it is scheduled.
C15_RenderTerminates ==
    (StreamEnded \/ ctxErr # NoErr) ~> (pcR = "done")

\* Render (and so Ask) has returned on cancellation while the decoder is
\* still blocked in a send
C15_Witness ==
    /\ pcR = "done" /\ rResult.kind = "ctx"
    /\ pcD = "sendContent" /\ pending # None
    /\ ~closed

\* ------------------------------------------------------------------------
\* Properties of findMarkdownBreakPoint, stated on the last scan: lines are
\* numbered from 1, Trace[n] is the scan state before line n and
\* Trace[n + 1] the one after it
\* ------------------------------------------------------------------------
\* the line holds nothing but white space
AllSpaces(line) == \A i \in 1..Len(line) : line[i] \in { " ", "\t", "\r" }
\* the candidate boundary after line n of a scan with states t
CandidateAfter(t, n) == t[n + 1].lastBreakPosition

\* C21: a heading line met with no block open makes the candidate boundary
\* the offset at which the heading line starts, unless it is the first line
\* of the buffer, which creates no boundary.
C21_HeadingRule ==
    \A lines \in { Split(lastScan) } : \A t \in { ScanTrace(lines, Len(lines)) } :
       \A n \in 1..Len(lines) :
          ( IsHeadingLine(lines[n]) /\ OpenBlocks(t[n]) = {} ) =>
             CandidateAfter(t, n) = IF n = 1 THEN -1 ELSE LineStart(lines, n)

\* the lines of a scan at which one of the rules of findMarkdownBreakPoint
\* assigns the candidate boundary: a blank line closing a Table, Blockquote
\* or List, a blank line by the blank-line rule, a heading line
CandidateLines(lines, t) ==
    { n \in 1..Len(lines) :
        \/ /\ IsBlankLine(lines[n]) /\ ~t[n + 1].inCodeBlock
           /\ t[n].inTable \/ t[n].inBlockquote \/ t[n].inList
        \/ /\ IsBlankLine(lines[n]) /\ OpenBlocks(t[n + 1]) = {} /\ n > 1
           /\ n = Len(lines) \/ ~IsBlankLine(lines[n + 1])
        \/ IsHeadingLine(lines[n]) /\ OpenBlocks(t[n + 1]) = {} /\ n > 1 }

\* C22: along a scan the candidate boundary never decreases, the value
\* returned is the candidate after the last line, hence the largest of all
\* candidates, and a boundary is returned exactly when some line of the
\* buffer assigns a candidate.
C22_LastIsLargest ==
    \A lines \in { Split(lastScan) } : \A t \in { ScanTrace(lines, Len(lines)) } :
       /\ \A n \in 1..Len(lines) :
             CandidateAfter(t, n) >= t[n].lastBreakPosition
       /\ lastIdx = Last(t).lastBreakPosition
       /\ \A n \in CandidateLines(lines, t) : lastIdx >= CandidateAfter(t, n)
       /\ lastIdx > -1 <=> CandidateLines(lines, t) # {}

\* the line starts, after white space, with three backquotes
StartsWithBackquotes(line) ==
    \E k \in 0..Len(line) :
       /\ AllSpaces(SubSeq(line, 1, k))
       /\ Len(line) >= k + 3
       /\ \A i \in (k + 1)..(k + 3) : line[i] = BQ

\* C23: when the first line of the buffer opens a code fence and no later
\* line closes it, the scan returns no boundary whatever the later lines
\* are, and processChunk renders nothing and keeps the whole buffer.
C23_OpenFenceHolds ==
    \A lines \in { Split(lastScan) } :
       ( /\ StartsWithBackquotes(lines[1])
         /\ \A n \in 2..Len(lines) : ~StartsWithBackquotes(lines[n]) ) =>
          /\ lastIdx = -1
          /\ segs = <<>> /\ out = <<>>
          /\ buffer = lastScan

\* an open fence followed by a blank line, a heading and a table row
C23_Witness ==
    /\ recvLog # <<>>
    /\ \E lines \in { Split(lastScan) } :
          /\ Len(lines) >= 4
          /\ StartsWithBackquotes(lines[1])
          /\ \A n \in 2..Len(lines) : ~StartsWithBackquotes(lines[n])
          /\ \E n \in 2..(Len(lines) - 1) : lines[n] = <<>>
          /\ \E n \in 2..Len(lines) : IsHeadingLine(lines[n])
    /\ lastIdx = -1 /\ buffer = lastScan

\* what the blank-line rule does at line n, a blank line met with no block
\* open: the candidate becomes the offset of line n when a non-blank line or
\* the end of the buffer follows, and stays what it was otherwise
BlankLineRuleAt(lines, t, n) ==
    ( AllSpaces(lines[n]) /\ OpenBlocks(t[n]) = {} ) =>
       CandidateAfter(t, n) =
          IF n = Len(lines) \/ ~AllSpaces(lines[n + 1])
          THEN LineStart(lines, n) ELSE t[n].lastBreakPosition

\* C24: in a non-empty buffer the blank-line rule applies at every line,
\* the first line included.
C24_BlankLineRule ==
    lastScan # <<>> =>
      \A lines \in { Split(lastScan) } : \A t \in { ScanTrace(lines, Len(lines)) } :
         \A n \in 1..Len(lines) : BlankLineRuleAt(lines, t, n)

\* C24 as the code has it: the blank-line rule applies at every line but the
\* first; a blank first line never creates a candidate.
C24_BlankLineRuleAfterFirst ==
    lastScan # <<>> =>
      \A lines \in { Split(lastScan) } : \A t \in { ScanTrace(lines, Len(lines)) } :
         /\ \A n \in 2..Len(lines) : BlankLineRuleAt(lines, t, n)
         /\ AllSpaces(lines[1]) => CandidateAfter(t, 1) = -1

\* a blank first line, then a blank line followed by text: the boundary
\* returned is the offset of the second blank line
C24_Witness ==
    /\ recvLog # <<>> /\ lastScan # <<>>
    /\ \E lines \in { Split(lastScan) } :
          /\ AllSpaces(lines[1])
          /\ \E n \in 2..(Len(lines) - 1) :
                /\ AllSpaces(lines[n]) /\ ~AllSpaces(lines[n + 1])
                /\ n = Len(lines) - 1
                /\ lastIdx = LineStart(lines, n)
    /\ lastIdx > 0 /\ segs # <<>>

\* the flag of a scan state for one kind of block
IsOpen(st, kind) ==
    \/ kind = "Table" /\ st.inTable
    \/ kind = "Blockquote" /\ st.inBlockquote
    \/ kind = "List" /\ st.inList

\* C25: for a Table, Blockquote or List open before a line: a line inside a
\* code block (or opening one) leaves it open and assigns no candidate, even
\* when blank; outside a code block a blank line closes it and makes its own
\* offset the candidate, and any other line leaves it open.
C25_BlockClosing ==
    \A lines \in { Split(lastScan) } : \A t \in { ScanTrace(lines, Len(lines)) } :
       \A n \in 1..Len(lines) : \A kind \in { "Table", "Blockquote", "List" } :
          IsOpen(t[n], kind) =>
             IF t[n + 1].inCodeBlock
             THEN /\ IsOpen(t[n + 1], kind)
                  /\ CandidateAfter(t, n) = t[n].lastBreakPosition
             ELSE IF AllSpaces(lines[n])
             THEN /\ ~IsOpen(t[n + 1], kind)
                  /\ CandidateAfter(t, n) = LineStart(lines, n)
             ELSE IsOpen(t[n + 1], kind)

\* a table row, a line of text that leaves the table open, and the blank
\* line that closes it: the boundary returned is the blank line's offset
C25_Witness ==
    /\ recvLog # <<>>
    /\ \E lines \in { Split(lastScan) } : \E t \in { ScanTrace(lines, Len(lines)) } :
          /\ Len(lines) >= 3
          /\ IsRowLine(lines[1]) /\ lines[2] = << "a" >> /\ lines[3] = <<>>
          /\ t[3].inTable /\ ~t[4].inTable
          /\ lastIdx = LineStart(lines, 3)
    /\ segs # <<>>

\* C26: a value greater than -1 returned by the last scan lies between 0
\* and the length of the scanned buffer, so bufContent[:idx] and
\* bufContent[idx:] are in range; a negative value, also one below -1, is
\* no boundary: nothing is rendered for it and the buffer is left as scanned.
C26_BoundaryInRange ==
    /\ lastIdx > -1 =>
         /\ 0 <= lastIdx /\ lastIdx <= Len(lastScan)
         /\ rResult.cause # "slice bounds out of range"
    /\ (lastIdx < 0 /\ recvLog # <<>>) =>
         /\ buffer = lastScan
         /\ segs = <<>> /\ out = <<>>

\* the heading rule returned a value below -1 and processChunk kept the
\* buffer
C26_Witness ==
    /\ recvLog # <<>>
    /\ lastIdx < -1
    /\ buffer = lastScan /\ segs = <<>>

\* C27: every segment processChunk hands to renderContent is non-empty: the
\* boundary it acts on is at least 1 and the buffer gets strictly shorter, so
\* no render call is made, and no output written, for an empty segment.
C27_SegmentsNonEmpty ==
    /\ \A i \in 1..Len(segs) : ~segs[i].final => segs[i].seg # <<>>
    /\ lastIdx > -1 => lastIdx >= 1
    /\ (lastIdx > -1 /\ rResult = Nil) => Len(buffer) < Len(lastScan)

\* Process is blocked in a send on p.chunks that no one will receive:
\* Render, the only receiver, has returned
BlockedForGood ==
    /\ pcR = "done"
    /\ pcD \in { "sendCancel", "sendReadErr", "sendParseErr", "sendContent" }
    /\ pending # None

\* C28: the decoder is never left blocked in a send after Render has
\* returned, so that it can always go on to return and close the channel.
C28_DecoderNeverStuck == ~BlockedForGood

\* C29: once the context is cancelled, Process hands at most one more
\* content Chunk to a send (the one of the read it was in), and Render
\* receives, and so processes, at most one more content Chunk.
C29_AtMostOneAfterCancel ==
    /\ hist.lateSent <= 1
    /\ hist.lateRecv <= 1

\* the context was cancelled during a read; the content Chunk of that read
\* was sent and processed, then both goroutines returned
C29_Witness ==
    /\ hist.lateSent = 1 /\ hist.lateRecv = 1
    /\ ctxErr # NoErr /\ pcD = "done" /\ pcR = "done"
    /\ Last(sentLog).Error = ctxErr

\* Process has read a `data: [DONE]` line
DoneRead == hist.doneAt >= 0
\* Process has left its loop for one of its three reasons: scanner.Scan()
\* returned false (end of the body or a read error), or ctx.Done() was seen
\* and the cancellation Chunk handed to its send
LoopLeftProperly ==
    \/ ~scanned.ok /\ scanned # NotScanned
    \/ ctxErr # NoErr /\ sentLog # <<>> /\ Last(sentLog).Error = ctxErr
\* the content Chunks among cs
ContentChunks(cs) == { i \in 1..Len(cs) : cs[i].Error = NoErr }

\* C30: reading `data: [DONE]` does not end decoding.  Right after it
\* Process is back at the head of its loop; once it has been read, Process
\* leaves the loop only at the end of the body, on a read error or on
\* cancellation; every content frame read, before or after it, has yielded
\* its content Chunk; and a run that drains the channel has handed all that
\* content to renderContent (printed it, in plain mode).
C30_DoneDoesNotEnd ==
    DoneRead =>
      /\ (scanned = ScanLineRead(DataLine(TRUE, DonePayload)) /\ ctxErr = NoErr)
            => pcD = "select"
      /\ pcD \in { "return", "done" } => LoopLeftProperly
      /\ Cardinality(ContentChunks(sentLog)) = nFrames
      /\ DecodedText = Concat(SubSeq(doc, 1, pos))
      /\ (pcR = "done" /\ Drained) =>
            /\ Concat([ i \in 1..Len(segs) |-> segs[i].seg ]) = DecodedText
            /\ plainText => PrintedText = DecodedText

\* the done marker came before the last content frame of the answer; that
\* frame's content was sent, received and printed, and the run ended well
C30_Witness ==
    /\ DoneRead /\ nFrames > hist.doneAt
    /\ pos = Len(doc) /\ scanned = ScanEnd
    /\ pcR = "done" /\ Drained /\ plainText
    /\ PrintedText = Concat(doc)
====
